---- MODULE Spec2Model ----
(***************************************************************************)
(* Model of keras/layers/preprocessing/category_crossing.py:               *)
(* the CategoryCrossing layer.  A tensor is modelled by its kind (dense,   *)
(* sparse, ragged) and, per example, the ordered list of its values.       *)
(***************************************************************************)
EXTENDS Integers, Sequences, FiniteSets, TLC

VARIABLES
  self_depth,        \* self.depth: [none], [int |-> D] or [tuple |-> <<..>>]
  self_separator,    \* self.separator
  self_depth_tuple,  \* self._depth_tuple, [unset] when __init__ never assigns it
  pc,                \* position: "idle", "for_depth", "for_comb", "concat", "done"
  op,                \* the method that was invoked: "none", "call", "shape", "signature"
  inputs,            \* call: the list of input tensors after _preprocess_input
  depth_tuple,       \* call: local depth_tuple
  ragged_out,        \* call: local ragged_out
  sparse_out,        \* call: local sparse_out
  outputs,           \* call: local outputs
  di,                \* call: number of elements of depth_tuple the outer for has taken
  depth,             \* call: loop variable depth
  indices,           \* call: state of the itertools.combinations iterator
  partial_inps,      \* call: loop variable partial_inps
  input_shape,       \* compute_output_shape: its argument
  input_spec,        \* compute_output_signature: its argument
  result             \* what the method returned or raised

vars == <<self_depth, self_separator, self_depth_tuple, pc, op, inputs,
          depth_tuple, ragged_out, sparse_out, outputs, di, depth, indices,
          partial_inps, input_shape, input_spec, result>>

(***************************************************************************)
(* Bounds of the model.                                                    *)
(***************************************************************************)
\* largest number of input tensors of one call
MaxCols == 3
\* largest depth value a configuration names (one more than MaxCols can serve)
MaxDepth == 4
\* number of examples of every input tensor
Batch == 2
\* largest number of shapes / specs handed to the shape methods
MaxSpecs == 2
\* largest declared rank of a shape
MaxRank == 3

\* partial_crossing called on its own: most tensors crossed at once
MaxCrossed == 3
\* partial_crossing called on its own: most values an example holds in a tensor
MaxLen == 2

None == [none |-> TRUE]
Unset == [unset |-> TRUE]

\* the default of the separator argument
DefaultSeparator == "_X_"

Separators == {DefaultSeparator, "-"}

RECURSIVE SeqsUpTo(_, _)
SeqsUpTo(S, n) ==
  IF n = 0 THEN {<<>>}
  ELSE LET shorter == SeqsUpTo(S, n - 1)
       IN  shorter \cup {Append(s, x) : s \in {t \in shorter : Len(t) = n - 1}, x \in S}

DepthValues == (-1) .. MaxDepth

\* explicit depth tuples: (), (a,) and (a, b)
DepthTuples ==
  {<<>>} \cup {<<a>> : a \in DepthValues} \cup {<<a, b>> : a, b \in DepthValues}

\* the values the depth argument is drawn from: None, an int, a tuple of ints
DepthArgs ==
  {None} \cup {[int |-> d] : d \in DepthValues}
         \cup {[tuple |-> t] : t \in DepthTuples}

(***************************************************************************)
(* __init__ (lines 107-116).                                               *)
(***************************************************************************)
\* range(1, depth + 1) as a tuple
RangeTuple(d) == [i \in 1 .. d |-> i]

\* the value __init__ leaves in self._depth_tuple for a depth argument
InitDepthTuple(d) ==
  IF "tuple" \in DOMAIN d THEN [set |-> d.tuple]
  ELSE IF d # None THEN [set |-> RangeTuple(d.int)]
  ELSE Unset

(***************************************************************************)
(* Input tensors.  A value is an int or a string; an input is a rank-1     *)
(* Python list, or a rank-2 dense, sparse or ragged tensor.                *)
(***************************************************************************)
IntVal(i) == [int |-> i]
StrVal(s) == [str |-> s]

Letters == <<"a", "b", "c", "d", "e", "f", "g", "h", "i", "j", "k", "l",
             "m", "n", "o", "p", "q", "r", "s", "t">>

Kinds == {"list", "dense", "sparse", "ragged"}

\* how many values example e of the i-th input holds, when it is sparse or ragged
SparseLens == <<<<2, 0>>, <<2, 1>>, <<1, 2>>>>
RaggedLens == <<<<0, 2>>, <<1, 0>>, <<2, 1>>>>
SparseLen(i, e) == SparseLens[((i - 1) % 3) + 1][((e - 1) % 2) + 1]
RaggedLen(i, e) == RaggedLens[((i - 1) % 3) + 1][((e - 1) % 2) + 1]

\* the i-th input of a call, of the given kind
RawColumn(i, kind) ==
  CASE kind = "list" ->
         [kind |-> "list", rank |-> 1,
          rows |-> [e \in 1 .. Batch |-> StrVal(Letters[(i - 1) * Batch + e])]]
    [] kind = "dense" ->
         [kind |-> "dense", rank |-> 2,
          rows |-> [e \in 1 .. Batch |-> <<IntVal(i + 3 * (e - 1))>>]]
    [] kind = "sparse" ->
         [kind |-> "sparse", rank |-> 2,
          rows |-> [e \in 1 .. Batch |->
                     [k \in 1 .. SparseLen(i, e) |->
                        StrVal(Letters[i] \o ToString(e) \o ToString(k))]]]
    [] kind = "ragged" ->
         [kind |-> "ragged", rank |-> 2,
          rows |-> [e \in 1 .. Batch |->
                     [k \in 1 .. RaggedLen(i, e) |-> IntVal(10 * i + k)]]]

\* the lists of inputs a call is made with
RawInputs ==
  {[i \in 1 .. Len(ks) |-> RawColumn(i, ks[i])] : ks \in SeqsUpTo(Kinds, MaxCols)}

\* _preprocess_input (lines 134-139)
preprocess_input(inp) ==
  LET tensor == IF inp.kind = "list" THEN [inp EXCEPT !.kind = "dense"] ELSE inp
  IN  IF tensor.rank = 1
      THEN [tensor EXCEPT !.rank = 2,
                          !.rows = [e \in DOMAIN tensor.rows |-> <<tensor.rows[e]>>]]
      ELSE tensor

(***************************************************************************)
(* The crossing of one tuple of tensors: tf.sparse.cross, tf.ragged.cross, *)
(* tf.sparse.to_dense as partial_crossing uses them (lines 118-132).       *)
(***************************************************************************)
Raise(what) == [raise |-> what]
Ret(value) == [ret |-> value]
Raised(r) == "raise" \in DOMAIN r

\* the string form of a value: an int in base 10, a string unchanged
as_string(v) == IF "int" \in DOMAIN v THEN ToString(v.int) ELSE v.str

RECURSIVE JoinFrom(_, _, _)
JoinFrom(strs, sep, j) ==
  IF j = Len(strs) THEN strs[j]
  ELSE strs[j] \o sep \o JoinFrom(strs, sep, j + 1)

\* separator.join(strs)
Join(strs, sep) == IF Len(strs) = 0 THEN "" ELSE JoinFrom(strs, sep, 1)

\* as Advance, the first position moving first
RECURSIVE AdvanceUpwards(_, _, _)
AdvanceUpwards(perm, lens, i) ==
  IF i > Len(perm) THEN <<>>
  ELSE IF perm[i] = lens[i] THEN AdvanceUpwards([perm EXCEPT ![i] = 1], lens, i + 1)
  ELSE [perm EXCEPT ![i] = perm[i] + 1]

AdvanceFirstFastest(perm, lens, i) == AdvanceUpwards(perm, lens, 1)

\* the next choice of one position per list, the last position moving first;
\* <<>> when every choice has been made
RECURSIVE Advance(_, _, _)
Advance(perm, lens, i) ==
  IF i = 0 THEN <<>>
  ELSE IF perm[i] = lens[i] THEN Advance([perm EXCEPT ![i] = 1], lens, i - 1)
  ELSE [perm EXCEPT ![i] = perm[i] + 1]

RECURSIVE TokensFrom(_, _, _)
TokensFrom(lists, perm, sep) ==
  LET token == Join([j \in 1 .. Len(lists) |-> as_string(lists[j][perm[j]])], sep)
      next == Advance(perm, [j \in 1 .. Len(lists) |-> Len(lists[j])], Len(lists))
  IN  IF next = <<>> THEN <<token>> ELSE <<token>> \o TokensFrom(lists, next, sep)

\* the tokens of one example: lists holds that example's values, one list per tensor
CrossRow(lists, sep) ==
  IF \E j \in 1 .. Len(lists) : Len(lists[j]) = 0 THEN <<>>
  ELSE TokensFrom(lists, [j \in 1 .. Len(lists) |-> 1], sep)

\* the per-example tokens of the cross of a non-empty tuple of tensors
CrossRows(partial_inputs, sep) ==
  [e \in 1 .. Len(partial_inputs[1].rows) |->
     CrossRow([j \in 1 .. Len(partial_inputs) |-> partial_inputs[j].rows[e]], sep)]

\* the cross of an empty tuple of tensors is left to TensorFlow: it raises, or
\* it returns a tensor without examples
EmptyCross(kind) == {Raise("cross"), Ret([kind |-> kind, rank |-> 2, rows |-> <<>>])}

\* tf.ragged.cross(partial_inputs)
ragged_cross(partial_inputs) ==
  IF Len(partial_inputs) = 0 THEN EmptyCross("ragged")
  ELSE {Ret([kind |-> "ragged", rank |-> 2,
             rows |-> CrossRows(partial_inputs, DefaultSeparator)])}

\* tf.sparse.cross(partial_inputs, separator=separator)
sparse_cross(partial_inputs, separator) ==
  IF Len(partial_inputs) = 0 THEN EmptyCross("sparse")
  ELSE {Ret([kind |-> "sparse", rank |-> 2,
             rows |-> CrossRows(partial_inputs, separator)])}

Max(a, b) == IF a >= b THEN a ELSE b

RECURSIVE Width(_, _)
Width(rows, e) == IF e = 0 THEN 0 ELSE Max(Len(rows[e]), Width(rows, e - 1))

\* tf.sparse.to_dense: every row filled up to the widest one with ''
to_dense(sp) ==
  [kind |-> "dense", rank |-> 2,
   rows |-> [e \in DOMAIN sp.rows |->
               [k \in 1 .. Width(sp.rows, Len(sp.rows)) |->
                  IF k <= Len(sp.rows[e]) THEN sp.rows[e][k] ELSE ""]]]

\* as partial_crossing, the separator never looked at on the ragged path
partial_crossing_unchecked(partial_inputs, ragged, sparse) ==
  IF ragged
  THEN ragged_cross(partial_inputs)
  ELSE IF sparse
  THEN sparse_cross(partial_inputs, self_separator)
  ELSE {IF Raised(r) THEN r ELSE Ret(to_dense(r.ret)) :
          r \in sparse_cross(partial_inputs, self_separator)}

\* partial_crossing (lines 118-132): the set of its outcomes
partial_crossing(partial_inputs, ragged, sparse) ==
  IF ragged
  THEN IF self_separator # DefaultSeparator
       THEN {Raise("separator")}
       ELSE ragged_cross(partial_inputs)
  ELSE IF sparse
  THEN sparse_cross(partial_inputs, self_separator)
  ELSE {IF Raised(r) THEN r ELSE Ret(to_dense(r.ret)) :
          r \in sparse_cross(partial_inputs, self_separator)}

(***************************************************************************)
(* itertools.combinations(inputs, depth) (line 156): the iterator keeps    *)
(* the positions of the current combination.                               *)
(***************************************************************************)
Exhausted == [exhausted |-> TRUE]

\* combinations(iterable, r) yields nothing when r > n, else range(r) first
FirstCombination(n, r) == IF r > n THEN Exhausted ELSE [at |-> RangeTuple(r)]

\* the positions that can still move: position i may not pass i + n - r
Movable(ind, n) == {i \in 1 .. Len(ind) : ind[i] # i + n - Len(ind)}

\* as NextCombination, the leftmost movable position moved instead of the rightmost
NextCombinationLeftmost(ind, n) ==
  IF Movable(ind, n) = {} THEN Exhausted
  ELSE LET i == CHOOSE m \in Movable(ind, n) : \A o \in Movable(ind, n) : m <= o
       IN  [at |-> [j \in 1 .. Len(ind) |->
                      IF j < i THEN ind[j] ELSE ind[i] + 1 + (j - i)]]

NextCombination(ind, n) ==
  IF Movable(ind, n) = {} THEN Exhausted
  ELSE LET i == CHOOSE m \in Movable(ind, n) : \A o \in Movable(ind, n) : o <= m
       IN  [at |-> [j \in 1 .. Len(ind) |->
                      IF j < i THEN ind[j] ELSE ind[i] + 1 + (j - i)]]

(***************************************************************************)
(* tf.concat and tf.sparse.concat along axis 1 (lines 160-162).            *)
(***************************************************************************)
\* as ConcatRow, every later value put in front of the earlier ones
RECURSIVE ConcatRowBackwards(_, _, _)
ConcatRowBackwards(values, e, j) ==
  IF j > Len(values) THEN <<>>
  ELSE ConcatRowBackwards(values, e, j + 1) \o values[j].rows[e]

RECURSIVE ConcatRow(_, _, _)
ConcatRow(values, e, j) ==
  IF j > Len(values) THEN <<>>
  ELSE values[j].rows[e] \o ConcatRow(values, e, j + 1)

SameBatch(values) ==
  \A j \in 1 .. Len(values) : Len(values[j].rows) = Len(values[1].rows)

ConcatRows(values) ==
  [e \in 1 .. Len(values[1].rows) |-> ConcatRow(values, e, 1)]

\* tf.concat(values, axis=1)
tf_concat(values) ==
  IF Len(values) = 0 \/ ~SameBatch(values) THEN Raise("concat")
  ELSE IF \E j \in 1 .. Len(values) : values[j].kind = "sparse" THEN Raise("concat")
  ELSE Ret([kind |-> IF \E j \in 1 .. Len(values) : values[j].kind = "ragged"
                     THEN "ragged" ELSE "dense",
            rank |-> 2, rows |-> ConcatRows(values)])

\* tf.sparse.concat(axis=1, sp_inputs=sp_inputs)
sparse_concat(sp_inputs) ==
  IF Len(sp_inputs) = 0 \/ ~SameBatch(sp_inputs) THEN Raise("concat")
  ELSE IF \E j \in 1 .. Len(sp_inputs) : sp_inputs[j].kind # "sparse" THEN Raise("concat")
  ELSE Ret([kind |-> "sparse", rank |-> 2, rows |-> ConcatRows(sp_inputs)])

(***************************************************************************)
(* The state after construction.                                           *)
(***************************************************************************)
Constructed(d, sep) ==
  /\ self_depth = d
  /\ self_separator = sep
  /\ self_depth_tuple = InitDepthTuple(d)
  /\ pc = "idle"
  /\ op = "none"
  /\ inputs = <<>>
  /\ depth_tuple = <<>>
  /\ ragged_out = FALSE
  /\ sparse_out = FALSE
  /\ outputs = <<>>
  /\ di = 0
  /\ depth = 0
  /\ indices = Exhausted
  /\ partial_inps = <<>>
  /\ input_shape = None
  /\ input_spec = <<>>
  /\ result = None

Init == \E d \in DepthArgs, sep \in Separators : Constructed(d, sep)

(***************************************************************************)
(* call (lines 141-162).                                                   *)
(***************************************************************************)
\* the truth value Python gives self.depth in `if self.depth`
Truthy(d) ==
  IF d = None THEN FALSE
  ELSE IF "int" \in DOMAIN d THEN d.int # 0
  ELSE Len(d.tuple) > 0

\* line 143
CallDepthTuple(n) ==
  IF Truthy(self_depth) THEN self_depth_tuple.set ELSE <<n>>

\* line 145
AnyRagged(tensors) == \E i \in 1 .. Len(tensors) : tensors[i].kind = "ragged"

\* line 147
AnySparse(tensors) == \E i \in 1 .. Len(tensors) : tensors[i].kind = "sparse"

\* as OutFlags, the sparse inputs looked for first
OutFlagsSparseFirst(tensors) ==
  IF AnySparse(tensors) THEN <<FALSE, TRUE>>
  ELSE IF AnyRagged(tensors) THEN <<TRUE, FALSE>>
  ELSE <<FALSE, FALSE>>

\* lines 144-148: <<ragged_out, sparse_out>>
OutFlags(tensors) ==
  IF AnyRagged(tensors) THEN <<TRUE, FALSE>>
  ELSE IF AnySparse(tensors) THEN <<FALSE, TRUE>>
  ELSE <<FALSE, FALSE>>

\* lines 142-150: call is entered with a list of inputs
Call ==
  /\ pc = "idle"
  /\ \E raw \in RawInputs :
       LET pre == [i \in 1 .. Len(raw) |-> preprocess_input(raw[i])]
       IN  /\ inputs' = pre
           /\ depth_tuple' = CallDepthTuple(Len(pre))
           /\ ragged_out' = OutFlags(pre)[1]
           /\ sparse_out' = OutFlags(pre)[2]
  /\ outputs' = <<>>
  /\ di' = 0
  /\ op' = "call"
  /\ pc' = "for_depth"
  /\ UNCHANGED <<self_depth, self_separator, self_depth_tuple, depth, indices,
                 input_shape, input_spec, result, partial_inps>>

\* as TooFewInputs, off by one
TooFewInputsOffByOne(n, d) == n + 1 < d

\* line 152
TooFewInputs(n, d) == n < d

\* line 151: the outer for takes the next depth; lines 152-155 reject it
RaiseDepth ==
  /\ pc = "for_depth"
  /\ di < Len(depth_tuple)
  /\ TooFewInputs(Len(inputs), depth_tuple[di + 1])
  /\ depth' = depth_tuple[di + 1]
  /\ di' = di + 1
  /\ result' = Raise("depth")
  /\ pc' = "done"
  /\ UNCHANGED <<self_depth, self_separator, self_depth_tuple, op, inputs,
                 depth_tuple, ragged_out, sparse_out, outputs, indices,
                 input_shape, input_spec, partial_inps>>

\* line 156: itertools.combinations raises ValueError for a negative r
RaiseCombinations ==
  /\ pc = "for_depth"
  /\ di < Len(depth_tuple)
  /\ ~TooFewInputs(Len(inputs), depth_tuple[di + 1])
  /\ depth_tuple[di + 1] < 0
  /\ depth' = depth_tuple[di + 1]
  /\ di' = di + 1
  /\ result' = Raise("combinations")
  /\ pc' = "done"
  /\ UNCHANGED <<self_depth, self_separator, self_depth_tuple, op, inputs,
                 depth_tuple, ragged_out, sparse_out, outputs, indices,
                 input_shape, input_spec, partial_inps>>

\* lines 151-156: the depth passes the check and its combinations start
NextDepth ==
  /\ pc = "for_depth"
  /\ di < Len(depth_tuple)
  /\ ~TooFewInputs(Len(inputs), depth_tuple[di + 1])
  /\ depth_tuple[di + 1] >= 0
  /\ depth' = depth_tuple[di + 1]
  /\ di' = di + 1
  /\ indices' = FirstCombination(Len(inputs), depth_tuple[di + 1])
  /\ pc' = "for_comb"
  /\ UNCHANGED <<self_depth, self_separator, self_depth_tuple, op, inputs,
                 depth_tuple, ragged_out, sparse_out, outputs,
                 input_shape, input_spec, result, partial_inps>>

\* the tensors itertools.combinations yields for the positions ind
PartialInps(ind) == [j \in 1 .. Len(ind) |-> inputs[ind[j]]]

\* lines 156-159: one combination is crossed and appended
CrossNext ==
  /\ pc = "for_comb"
  /\ indices # Exhausted
  /\ partial_inps' = PartialInps(indices.at)
  /\ \E partial_out \in partial_crossing(PartialInps(indices.at), ragged_out, sparse_out) :
       /\ ~Raised(partial_out)
       /\ outputs' = Append(outputs, partial_out.ret)
  /\ indices' = NextCombination(indices.at, Len(inputs))
  /\ UNCHANGED <<self_depth, self_separator, self_depth_tuple, pc, op, inputs,
                 depth_tuple, ragged_out, sparse_out, di, depth,
                 input_shape, input_spec, result>>

\* lines 157-158: partial_crossing raises
CrossRaises ==
  /\ pc = "for_comb"
  /\ indices # Exhausted
  /\ partial_inps' = PartialInps(indices.at)
  /\ \E partial_out \in partial_crossing(PartialInps(indices.at), ragged_out, sparse_out) :
       /\ Raised(partial_out)
       /\ result' = partial_out
  /\ pc' = "done"
  /\ UNCHANGED <<self_depth, self_separator, self_depth_tuple, op, inputs,
                 depth_tuple, ragged_out, sparse_out, outputs, di, depth, indices,
                 input_shape, input_spec>>

\* line 156: the combinations of this depth are exhausted
DepthDone ==
  /\ pc = "for_comb"
  /\ indices = Exhausted
  /\ pc' = "for_depth"
  /\ UNCHANGED <<self_depth, self_separator, self_depth_tuple, op, inputs,
                 depth_tuple, ragged_out, sparse_out, outputs, di, depth, indices,
                 input_shape, input_spec, result, partial_inps>>

\* lines 160-162
CallResult(outs, sparse) ==
  IF sparse THEN sparse_concat(outs) ELSE tf_concat(outs)

\* lines 151, 160-162: the outer for is over and the outputs are concatenated
Concat ==
  /\ pc = "for_depth"
  /\ di = Len(depth_tuple)
  /\ result' = CallResult(outputs, sparse_out)
  /\ pc' = "done"
  /\ UNCHANGED <<self_depth, self_separator, self_depth_tuple, op, inputs,
                 depth_tuple, ragged_out, sparse_out, outputs, di, depth, indices,
                 input_shape, input_spec, partial_inps>>

Next ==
  \/ Call
  \/ RaiseDepth
  \/ RaiseCombinations
  \/ NextDepth
  \/ CrossNext
  \/ CrossRaises
  \/ DepthDone
  \/ Concat

Spec == Init /\ [][Next]_vars

(***************************************************************************)
(* compute_output_shape (lines 164-180) and compute_output_signature       *)
(* (lines 182-194).  A shape is a list of dimensions, each an int or None, *)
(* or a shape of unknown rank.                                             *)
(***************************************************************************)
Dim(n) == [dim |-> n]
UnknownShape == [unknown |-> TRUE]

\* the shape of rank r whose first dimension is first, the others None
ShapeOf(r, first) == [dims |-> [k \in 1 .. r |-> IF k = 1 THEN first ELSE None]]

Shapes ==
  {UnknownShape} \cup {ShapeOf(r, first) : r \in 0 .. MaxRank, first \in {None, Dim(Batch)}}

\* what is handed to compute_output_shape: a list of shapes, or something
\* that is neither a tuple nor a list
ShapeArgs == {[notlist |-> TRUE]} \cup {[list |-> l] : l \in SeqsUpTo(Shapes, MaxSpecs)}

SpecKinds == {"TensorSpec", "SparseTensorSpec", "RaggedTensorSpec"}

SpecArgs ==
  SeqsUpTo({[spec |-> k, shape |-> sh] : k \in SpecKinds, sh \in Shapes}, MaxSpecs)

\* as ShapeLoop, the rank checked of the first shape only
RECURSIVE ShapeLoopFirstOnly(_, _, _)
ShapeLoopFirstOnly(input_shapes, j, batch_size) ==
  IF j > Len(input_shapes) THEN Ret(<<batch_size, None>>)
  ELSE IF input_shapes[j] = UnknownShape THEN Raise("as_list")
  ELSE IF j = 1 /\ Len(input_shapes[j].dims) # 2 THEN Raise("rank")
  ELSE ShapeLoopFirstOnly(input_shapes, j + 1,
                          IF batch_size = None /\ Len(input_shapes[j].dims) > 0
                          THEN input_shapes[j].dims[1] ELSE batch_size)

\* lines 171-177: the loop from the j-th shape on; batch_size as it stands
RECURSIVE ShapeLoop(_, _, _)
ShapeLoop(input_shapes, j, batch_size) ==
  IF j > Len(input_shapes) THEN Ret(<<batch_size, None>>)
  ELSE IF input_shapes[j] = UnknownShape THEN Raise("as_list")
  ELSE IF Len(input_shapes[j].dims) # 2 THEN Raise("rank")
  ELSE ShapeLoop(input_shapes, j + 1,
                 IF batch_size = None THEN input_shapes[j].dims[1] ELSE batch_size)

compute_output_shape(shape_arg) ==
  IF "notlist" \in DOMAIN shape_arg THEN Raise("not_list")
  ELSE ShapeLoop(shape_arg.list, 1, None)

\* lines 185-194: the spec returned for the computed output shape
SignatureFor(specs, output_shape) ==
  IF \E j \in 1 .. Len(specs) : specs[j].spec = "RaggedTensorSpec"
  THEN [spec |-> "TensorSpec", shape |-> output_shape]
  ELSE IF \E j \in 1 .. Len(specs) : specs[j].spec = "SparseTensorSpec"
  THEN [spec |-> "SparseTensorSpec", shape |-> output_shape]
  ELSE [spec |-> "TensorSpec", shape |-> output_shape]

compute_output_signature(specs) ==
  LET output_shape ==
        compute_output_shape([list |-> [j \in 1 .. Len(specs) |-> specs[j].shape]])
  IN  IF Raised(output_shape) THEN output_shape
      ELSE Ret(SignatureFor(specs, output_shape.ret))

ComputeOutputShape ==
  /\ pc = "idle"
  /\ \E a \in ShapeArgs :
       /\ input_shape' = a
       /\ result' = compute_output_shape(a)
  /\ op' = "shape"
  /\ pc' = "done"
  /\ UNCHANGED <<self_depth, self_separator, self_depth_tuple, inputs,
                 depth_tuple, ragged_out, sparse_out, outputs, di, depth, indices,
                 input_spec, partial_inps>>

ComputeOutputSignature ==
  /\ pc = "idle"
  /\ \E a \in SpecArgs :
       /\ input_spec' = a
       /\ result' = compute_output_signature(a)
  /\ op' = "signature"
  /\ pc' = "done"
  /\ UNCHANGED <<self_depth, self_separator, self_depth_tuple, inputs,
                 depth_tuple, ragged_out, sparse_out, outputs, di, depth, indices,
                 input_shape, partial_inps>>

\* CategoryCrossing() with the defaults of line 107
InitShape == Constructed(None, DefaultSeparator)

ShapeNext ==
  \/ ComputeOutputShape
  \/ ComputeOutputSignature

SpecShape == InitShape /\ [][ShapeNext]_vars

(***************************************************************************)
(* partial_crossing (lines 118-132) called on its own, on tensors of one   *)
(* example each.                                                           *)
(***************************************************************************)
\* the values an example holds in a tensor of ints, or of strings: the first
\* n of these
IntValues == <<12, 7, 3, 25>>
StrValues == <<"a", "b", "c", "d">>

CrossLists ==
  UNION {{[k \in 1 .. n |-> IntVal(IntValues[k])], [k \in 1 .. n |-> StrVal(StrValues[k])]} :
           n \in 0 .. MaxLen}

\* the tuples of tensors of one kind, of one example each
CrossTuples(kind) ==
  {[j \in 1 .. Len(ls) |-> [kind |-> kind, rank |-> 2, rows |-> <<ls[j]>>]] :
     ls \in SeqsUpTo(CrossLists, MaxCrossed) \ {<<>>}}

\* the flags call passes for inputs of a kind
FlagsOf(kind) == OutFlags(<<[kind |-> kind]>>)

PartialCrossing ==
  /\ pc = "idle"
  /\ \E kind \in {"dense", "sparse", "ragged"} :
       \E tensors \in CrossTuples(kind) :
         /\ partial_inps' = tensors
         /\ ragged_out' = FlagsOf(kind)[1]
         /\ sparse_out' = FlagsOf(kind)[2]
         /\ \E partial_out \in
                partial_crossing(tensors, FlagsOf(kind)[1], FlagsOf(kind)[2]) :
              result' = partial_out
  /\ op' = "partial_crossing"
  /\ pc' = "done"
  /\ UNCHANGED <<self_depth, self_separator, self_depth_tuple, inputs,
                 depth_tuple, outputs, di, depth, indices, input_shape, input_spec>>

InitCross == \E sep \in Separators : Constructed(None, sep)

SpecCross == InitCross /\ [][PartialCrossing]_vars

(***************************************************************************)
(* What the specification says of the plan and of the tokens, stated       *)
(* without the iterators of the code.                                      *)
(***************************************************************************)
\* the ordered selections of d distinct positions among 1 .. n
RECURSIVE Ascending(_)
Ascending(S) ==
  IF S = {} THEN <<>>
  ELSE LET least == CHOOSE x \in S : \A y \in S : x <= y
       IN  <<least>> \o Ascending(S \ {least})

Combos(n, d) == {Ascending(S) : S \in {T \in SUBSET (1 .. n) : Cardinality(T) = d}}

\* lexicographic order on selections of the same size
LexLess(c1, c2) ==
  \E k \in 1 .. Len(c1) :
    /\ c1[k] < c2[k]
    /\ \A j \in 1 .. (k - 1) : c1[j] = c2[j]

RECURSIVE LexSorted(_)
LexSorted(S) ==
  IF S = {} THEN <<>>
  ELSE LET least == CHOOSE c \in S : \A o \in S : o = c \/ LexLess(c, o)
       IN  <<least>> \o LexSorted(S \ {least})

\* depth-major plan: for each depth in order, its selections in lexicographic order
RECURSIVE PlanFrom(_, _, _)
PlanFrom(depths, n, k) ==
  IF k > Len(depths) THEN <<>>
  ELSE LexSorted(Combos(n, depths[k])) \o PlanFrom(depths, n, k + 1)

PlanFor(depths, n) == PlanFrom(depths, n, 1)

\* the depth sequence a depth specification stands for: 1 .. D, or the list as given
Expanded(d) == IF "int" \in DOMAIN d THEN [i \in 1 .. d.int |-> i] ELSE d.tuple

RECURSIVE Binomial(_, _)
Binomial(n, k) ==
  IF k = 0 THEN 1
  ELSE IF n = 0 THEN 0
  ELSE Binomial(n - 1, k - 1) + Binomial(n - 1, k)

RECURSIVE SumBinomial(_, _)
SumBinomial(n, D) == IF D = 0 THEN 0 ELSE Binomial(n, D) + SumBinomial(n, D - 1)

\* the product of the lengths of the lists from position j on
RECURSIVE LenProduct(_, _)
LenProduct(lists, j) ==
  IF j > Len(lists) THEN 1 ELSE Len(lists[j]) * LenProduct(lists, j + 1)

\* the position in list j of the p-th element of the Cartesian product, the last
\* list varying fastest
PositionIn(lists, j, p) ==
  (((p - 1) \div LenProduct(lists, j + 1)) % Len(lists[j])) + 1

StringForm(v) == IF "str" \in DOMAIN v THEN v.str ELSE ToString(v.int)

\* the values joined from the left: ((v1 sep v2) sep v3) ...
RECURSIVE JoinedUpTo(_, _, _, _)
JoinedUpTo(lists, p, sep, j) ==
  IF j = 1 THEN StringForm(lists[1][PositionIn(lists, 1, p)])
  ELSE JoinedUpTo(lists, p, sep, j - 1) \o sep
         \o StringForm(lists[j][PositionIn(lists, j, p)])

\* the tokens of one example for k >= 1 lists
ProductTokens(lists, sep) ==
  [p \in 1 .. LenProduct(lists, 1) |-> JoinedUpTo(lists, p, sep, Len(lists))]

\* the per-example tokens of the cross of the tensors at the positions of a selection
CrossOf(tensors, selection, sep) ==
  [e \in 1 .. Len(tensors[1].rows) |->
     ProductTokens([j \in 1 .. Len(selection) |-> tensors[selection[j]].rows[e]], sep)]

(***************************************************************************)
(* Claims.                                                                 *)
(***************************************************************************)
IntDepthInRange ==
  /\ "int" \in DOMAIN self_depth
  /\ 1 <= self_depth.int
  /\ self_depth.int <= Len(inputs)

TupleDepthInRange ==
  /\ "tuple" \in DOMAIN self_depth
  /\ \A k \in 1 .. Len(self_depth.tuple) :
       1 <= self_depth.tuple[k] /\ self_depth.tuple[k] <= Len(inputs)

\* the subsets crossed so far and the one about to be crossed follow the plan,
\* and a call that returns has crossed the whole plan
FollowsPlan(plan) ==
  /\ Len(outputs) <= Len(plan)
  /\ (pc = "for_comb" /\ indices # Exhausted) =>
       /\ Len(outputs) < Len(plan)
       /\ indices.at = plan[Len(outputs) + 1]
  /\ (pc = "for_comb" /\ Len(outputs) > 0) =>
       partial_inps = [j \in 1 .. Len(plan[Len(outputs)]) |->
                         inputs[plan[Len(outputs)][j]]]
  /\ (pc = "done" /\ ~Raised(result)) => Len(outputs) = Len(plan)
  /\ (pc = "done" /\ ~Raised(result) /\ "int" \in DOMAIN self_depth) =>
       Len(outputs) = SumBinomial(Len(inputs), self_depth.int)

\* C1: for an integer depth D with 1 <= D <= n, or an explicit list of depths
\* each between 1 and n, call crosses the column subsets depth by depth (1 .. D
\* ascending, or the list order, a repeated depth repeated), within a depth in
\* lexicographic order of the column indices, each subset in the columns'
\* original order; for an integer D their number is the sum of C(n, d), d = 1 .. D.
\* (stated for calls with at least one input column)
C1_SubsetsFollowPlan ==
  (op = "call" /\ Len(inputs) >= 1 /\ (IntDepthInRange \/ TupleDepthInRange)) =>
    FollowsPlan(PlanFor(Expanded(self_depth), Len(inputs)))

\* C1 for the depth specifications that Python finds true: every integer in
\* range and every list of depths that is not empty
C1_SubsetsFollowPlanNonEmpty ==
  (op = "call" /\ (IntDepthInRange \/ (TupleDepthInRange /\ Len(self_depth.tuple) > 0))) =>
    FollowsPlan(PlanFor(Expanded(self_depth), Len(inputs)))

\* a call with the depths (2, 1) on three inputs has crossed its six subsets
C1_Witness ==
  /\ op = "call"
  /\ pc = "done"
  /\ ~Raised(result)
  /\ self_depth = [tuple |-> <<2, 1>>]
  /\ Len(inputs) = 3
  /\ Len(outputs) = 6

\* the dense rank-2 tensor with the given rows of ints
DenseInts(rows) ==
  [kind |-> "dense", rank |-> 2,
   rows |-> [e \in 1 .. Len(rows) |-> [k \in 1 .. Len(rows[e]) |-> IntVal(rows[e][k])]]]

\* a=[[1],[4]], b=[[2],[5]], c=[[3],[6]], depth=2, the default separator
C2_Scenario ==
  /\ op = "call"
  /\ inputs = <<DenseInts(<<<<1>>, <<4>>>>), DenseInts(<<<<2>>, <<5>>>>),
                DenseInts(<<<<3>>, <<6>>>>)>>
  /\ self_depth = [int |-> 2]
  /\ self_separator = DefaultSeparator

\* the per-subset outputs of a finished call are the given columns, in order
C2_Outputs(columns) ==
  /\ ~Raised(result)
  /\ Len(outputs) = Len(columns)
  /\ \A j \in 1 .. Len(columns) : outputs[j].rows = columns[j]
  /\ result.ret.kind = "dense"
  /\ result.ret.rows =
       [e \in 1 .. 2 |-> [j \in 1 .. Len(columns) |-> columns[j][e][1]]]

LastLists(e) == [j \in 1 .. Len(partial_inps) |-> partial_inps[j].rows[e]]

\* the call has just appended the cross of partial_inps
JustCrossed ==
  /\ op = "call"
  /\ pc = "for_comb"
  /\ Len(outputs) > 0
  /\ Len(partial_inps) >= 1

\* C3: for every example and every crossed subset of k >= 1 columns with value
\* lists L1 .. Lk, the tokens of the example are the elements of L1 x ... x Lk,
\* the last list varying fastest, each the string forms of its values joined in
\* subset-column order with the configured separator; there are
\* |L1| * ... * |Lk| of them, none when some list is empty.
C3_TokensAreProduct ==
  (op = "partial_crossing" /\ ~Raised(result)) =>
    /\ Len(result.ret.rows) = 1
    /\ LET tokens == result.ret.rows[1]
       IN  /\ tokens = ProductTokens(LastLists(1), self_separator)
           /\ Len(tokens) = LenProduct(LastLists(1), 1)
           /\ (\E j \in 1 .. Len(partial_inps) : Len(LastLists(1)[j]) = 0) =>
                Len(tokens) = 0

\* three columns of two values each were crossed with the separator '-': eight
\* tokens whose order shows which list varies fastest
C3_Witness ==
  /\ op = "partial_crossing"
  /\ ~Raised(result)
  /\ self_separator = "-"
  /\ Len(partial_inps) = 3
  /\ LastLists(1) = << <<IntVal(12), IntVal(7)>>, <<StrVal("a"), StrVal("b")>>,
                       <<IntVal(12), IntVal(7)>> >>
  /\ Len(result.ret.rows[1]) = 8
  /\ result.ret.rows[1][2] = "12-a-7"

\* every depth the outer for has taken so far asks for subsets of at least one column
DepthsTakenPositive == \A k \in 1 .. di : depth_tuple[k] >= 1

\* the tokens of example e of the first j entries of columns, one after the other
RECURSIVE RowUpTo(_, _, _)
RowUpTo(columns, e, j) ==
  IF j = 0 THEN <<>> ELSE RowUpTo(columns, e, j - 1) \o columns[j].rows[e]

\* C4: after the loop has processed the first j subsets the accumulated outputs
\* are the crosses of the first j planned subsets in order; the row of each
\* example in the final output is the concatenation, subset by subset, of its
\* tokens, their order inside a subset kept; there are as many per-subset output
\* columns as planned subsets.
C4_OutputsInPlanOrder ==
  (op = "call" /\ Len(inputs) >= 1 /\ DepthsTakenPositive) =>
    LET plan == PlanFor(depth_tuple, Len(inputs))
    IN  /\ Len(outputs) <= Len(plan)
        /\ \A j \in 1 .. Len(outputs) :
             outputs[j].rows = CrossOf(inputs, plan[j], self_separator)
        /\ (pc = "done" /\ ~Raised(result)) =>
             /\ Len(outputs) = Len(plan)
             /\ Len(result.ret.rows) = Len(inputs[1].rows)
             /\ \A e \in 1 .. Len(inputs[1].rows) :
                  result.ret.rows[e] = RowUpTo(outputs, e, Len(outputs))

\* a call has returned the concatenation of at least four per-subset outputs, two
\* of which hold tokens for the first example
C4_Witness ==
  /\ op = "call"
  /\ pc = "done"
  /\ ~Raised(result)
  /\ Len(outputs) >= 4
  /\ Len(outputs[1].rows[1]) > 0
  /\ Len(outputs[Len(outputs)].rows[1]) > 1

\* a call that has not ended can take its next step: the outer for has a depth
\* left or goes on to the concatenation, the inner for has no combination left
\* or crosses the next one
CallCanStep ==
  /\ pc = "for_depth" => di <= Len(depth_tuple)
  /\ (pc = "for_comb" /\ indices # Exhausted) =>
       /\ \A j \in 1 .. Len(indices.at) : indices.at[j] \in 1 .. Len(inputs)
       /\ partial_crossing(PartialInps(indices.at), ragged_out, sparse_out) # {}

\* some depth of the expanded depth sequence exceeds the number of inputs
SomeDepthTooLarge ==
  /\ self_depth # None
  /\ \E k \in 1 .. Len(Expanded(self_depth)) : Expanded(self_depth)[k] > Len(inputs)

\* C5: whenever a depth of the expanded depth sequence is greater than the
\* number of input columns, call ends in an error and returns nothing, also when
\* earlier depths were valid and their subsets already crossed.
C5_DepthTooLargeFails ==
  (op = "call" /\ SomeDepthTooLarge) =>
    /\ result = None \/ Raised(result)
    /\ pc = "done" => Raised(result)
    /\ pc # "done" => CallCanStep

\* the depths (1, 4) on three inputs: the three single columns were crossed, then
\* depth 4 was refused
C5_Witness ==
  /\ op = "call"
  /\ pc = "done"
  /\ Len(inputs) = 3
  /\ self_depth = [tuple |-> <<1, 4>>]
  /\ Len(outputs) = 3
  /\ result = Raise("depth")

\* a depth below 1 is configured: an integer below 1, or a list holding one
DepthBelowOne ==
  \/ "int" \in DOMAIN self_depth /\ self_depth.int < 1
  \/ /\ "tuple" \in DOMAIN self_depth
     /\ \E k \in 1 .. Len(self_depth.tuple) : self_depth.tuple[k] < 1

\* C6: whenever a requested depth is less than 1 the operation fails; the depth
\* is never treated as absent and no output is produced for it.  (Calls that
\* hand TensorFlow an empty tuple of columns to cross are left out: what happens
\* to them is not decided here.)
C6_DepthBelowOneFails ==
  (op = "call" /\ pc = "done" /\ DepthBelowOne /\ Len(inputs) >= 1
     /\ \A k \in 1 .. Len(depth_tuple) : depth_tuple[k] # 0) =>
    Raised(result)

\* C7: if some input is ragged and the separator is not the default, call fails
\* and returns nothing, whatever the depth specification; if no input is ragged
\* the separator never causes that error and joins the tokens.
C7_RaggedNeedsDefaultSeparator ==
  (op = "call") =>
    /\ (AnyRagged(inputs) /\ self_separator # DefaultSeparator) =>
         /\ result = None \/ Raised(result)
         /\ outputs = <<>>
         /\ pc = "done" => Raised(result)
         /\ pc # "done" => CallCanStep
    /\ ~AnyRagged(inputs) => result # Raise("separator")
    /\ (~AnyRagged(inputs) /\ JustCrossed) =>
         \A e \in 1 .. Len(inputs[1].rows) :
           outputs[Len(outputs)].rows[e] = ProductTokens(LastLists(e), self_separator)

\* a call with a ragged input and the separator '-' was refused for its separator
C7_Witness ==
  /\ op = "call"
  /\ pc = "done"
  /\ AnyRagged(inputs)
  /\ self_separator = "-"
  /\ result = Raise("separator")

\* a call without ragged input has joined two columns with '-'
C7_WitnessJoined ==
  /\ JustCrossed
  /\ ~AnyRagged(inputs)
  /\ self_separator = "-"
  /\ Len(partial_inps) = 2
  /\ \E e \in 1 .. Len(inputs[1].rows) : Len(outputs[Len(outputs)].rows[e]) > 0

\* the representation the kinds of the inputs call for
ExpectedKind(tensors) ==
  LET kinds == {tensors[i].kind : i \in 1 .. Len(tensors)}
  IN  IF "ragged" \in kinds THEN "ragged"
      ELSE IF "sparse" \in kinds THEN "sparse"
      ELSE "dense"

\* C8: the output of a call that succeeds is ragged if any input is ragged,
\* otherwise sparse if any input is sparse, otherwise dense, whatever the depth,
\* the separator and the order of the inputs; every per-subset output is in that
\* same representation.
C8_Representation ==
  (op = "call") =>
    /\ \A j \in 1 .. Len(outputs) : outputs[j].kind = ExpectedKind(inputs)
    /\ (pc = "done" /\ ~Raised(result)) => result.ret.kind = ExpectedKind(inputs)

\* a call on a sparse input before a ragged one has returned a ragged output
C8_Witness ==
  /\ op = "call"
  /\ pc = "done"
  /\ ~Raised(result)
  /\ Len(inputs) >= 2
  /\ inputs[1].kind = "sparse"
  /\ inputs[2].kind = "ragged"
  /\ Len(outputs) >= 2
  /\ result.ret.kind = "ragged"

\* a shape of the list has a rank other than 2 (an unknown rank is not 2)
HasBadRank(shapes) ==
  \E j \in 1 .. Len(shapes) : shapes[j] = UnknownShape \/ Len(shapes[j].dims) # 2

\* C9: compute_output_shape fails if any shape of the list, at any position, has
\* a rank other than 2, and if its argument is no list or tuple; when every shape
\* has rank 2 it touches no data and returns [batch_size, None].
C9_ShapeNeedsRankTwo ==
  (op = "shape") =>
    LET bad == "notlist" \in DOMAIN input_shape \/ HasBadRank(input_shape.list)
    IN  /\ Raised(result) <=> bad
        /\ ~bad =>
             /\ Len(result.ret) = 2
             /\ result.ret[2] = None
             /\ result.ret[1] \in
                  {None} \cup {input_shape.list[j].dims[1] : j \in 1 .. Len(input_shape.list)}
        /\ inputs = <<>> /\ outputs = <<>>

\* a list whose first shape has rank 2 and whose second has not was refused
C9_Witness ==
  /\ op = "shape"
  /\ "list" \in DOMAIN input_shape
  /\ Len(input_shape.list) = 2
  /\ input_shape.list[1] = ShapeOf(2, Dim(Batch))
  /\ input_shape.list[2] = ShapeOf(3, Dim(Batch))
  /\ result = Raise("rank")

\* the tensor kind a spec declares, and the spec of a tensor kind
KindOfSpec(spec) ==
  CASE spec = "RaggedTensorSpec" -> "ragged"
    [] spec = "SparseTensorSpec" -> "sparse"
    [] spec = "TensorSpec" -> "dense"

SpecOfKind(kind) ==
  CASE kind = "ragged" -> "RaggedTensorSpec"
    [] kind = "sparse" -> "SparseTensorSpec"
    [] kind = "dense" -> "TensorSpec"

\* the representation call produces for inputs of the kinds the specs declare
CallKindFor(specs) ==
  LET flags == OutFlags([j \in 1 .. Len(specs) |-> [kind |-> KindOfSpec(specs[j].spec)]])
  IN  IF flags[1] THEN "ragged" ELSE IF flags[2] THEN "sparse" ELSE "dense"

\* C10: the representation compute_output_signature declares agrees with the one
\* call produces for inputs of those kinds: ragged when any input is ragged,
\* otherwise sparse when any input is sparse, otherwise dense.
C10_SignatureAgreesWithCall ==
  (op = "signature" /\ ~Raised(result)) =>
    result.ret.spec = SpecOfKind(CallKindFor(input_spec))

====
